---- MODULE Spec2Model ----
(***************************************************************************)
(* Model of hashdist/cli/frontend_cli.py: the profile front-end commands   *)
(* build, develop, status, show and bdir, each executed through            *)
(* ProfileFrontendBase.run.  The artifact store, the profile symlink and   *)
(* the target directories are the persistent state; one command runs per   *)
(* behaviour, started from an arbitrary store and file-system state.       *)
(***************************************************************************)
EXTENDS Integers, Sequences, FiniteSets, TLC

(* ----------------------------- bounds ---------------------------------- *)
NumPkgs == 3

Packages == 1..NumPkgs

\* args.package is None when no package is named on the command line
NoPackage == 0

(* ----------------------------- strings --------------------------------- *)
\* file names are sequences of characters
YamlSuffix == <<".", "y", "a", "m", "l">>

ProfileNames ==
    { <<"d", ".", "y", "a", "m", "l">>,
      <<"d", ".", "y", "m", "l">>,
      <<"y", "a", "m", "l">> }

\* args.target of develop / bdir: '' (the default) or a directory name
TargetArgs == { <<>>, <<"t">> }

\* str.endswith
endswith(s, suf) ==
    /\ Len(s) >= Len(suf)
    /\ SubSeq(s, Len(s) - Len(suf) + 1, Len(s)) = suf

\* s[:-k] for k > 0 (a slice never fails; it is empty when k >= len(s))
SliceOff(s, k) ==
    IF Len(s) > k THEN SubSeq(s, 1, Len(s) - k) ELSE <<>>

StripSuffixNone(name) == name

\* self.args.profile[:-len('.yaml')]
StripSuffix(name) == SliceOff(name, Len(YamlSuffix))

\* os.path.abspath of a relative path: the working directory is prepended
Cwd == <<"/">>

abspath(p) == Cwd \o p

(* --------------------------- file system ------------------------------- *)
Absent == <<"absent">>
File == <<"file">>
Link(dir) == <<"link", dir>>
Dir(contents) == <<"dir", contents>>

OldArtifactDir == "old_artifact"
ProfileArtifactDir == "profile_artifact"

FsPaths ==
    {abspath(n) : n \in ProfileNames}
        \cup {abspath(StripSuffix(n)) : n \in ProfileNames}
        \cup {abspath(t) : t \in TargetArgs \ {<<>>}}

\* os.path.exists (every link of the model points at an existing directory)
exists(fsys, path) == fsys[path] # Absent

IsLink(e) == e[1] = "link"

(* ------------------------------ profile -------------------------------- *)
RECURSIVE Peel(_, _)
Peel(d, S) ==
    IF S = {} THEN TRUE
    ELSE LET srcs == {p \in S : d[p] \cap S = {}}
         IN  srcs # {} /\ Peel(d, S \ srcs)

\* Package invariant of the profile loader: the dependency graph is a DAG
IsDAG(d) == Peel(d, Packages)

Commands == {"build", "develop", "status", "show", "bdir"}

\* names bound at module level of frontend_cli.py
ModuleGlobals ==
    { "add_build_args", "add_profile_args", "add_develop_args",
      "add_target_args", "ProfileFrontendBase", "Build", "Develop",
      "Status", "Show", "BuildDir", "system_lib", "check_lib",
      "check_libs", "CheckLibs", "register_subcommand", "BuildStore",
      "os", "sys", "shutil", "pprint", "subprocess", "print_function" }

VARIABLES
    deps,        \* profile: package -> set of its dependency packages
    built,       \* artifact store: packages whose artifact is published
    fs,          \* file system: absolute path -> entry
    built0,      \* store state when the command started
    fs0,         \* file system when the command started
    cmd,         \* the subcommand being run
    args,        \* parsed command line
    pc,          \* position of the run
    ready,       \* local `ready` of build_profile_deps
    building,    \* package whose builder.build call is in progress
    target,      \* local `target` of Develop.profile_builder_action
    profile_symlink, \* local of Build.profile_builder_action
    artifact_dir,\* local of Build.profile_builder_action
    trace,       \* events of the run: calls made, build failures raised
    stdout,      \* lines written to sys.stdout
    exc,         \* exception in flight ("None" when there is none)
    closed,      \* number of times self.checkouts.close() has run
    result       \* what run() delivered to its caller

vars == << deps, built, fs, built0, fs0, cmd, args, pc, ready, building,
           target, profile_symlink, artifact_dir, trace, stdout, exc,
           closed, result >>

(* ------------------------- ProfileBuilder ------------------------------ *)
\* ReadySet: not-yet-built packages all of whose dependencies are built,
\* in the profile's declared order
get_ready_list(d, blt) ==
    SelectSeq([i \in 1..NumPkgs |-> i],
              LAMBDA p : p \notin blt /\ d[p] \subseteq blt)

\* statusReport: package -> is_built
get_status_report(blt) == [p \in Packages |-> p \in blt]

StatusTextSwapped(is_built) == IF is_built THEN "needs build" ELSE "OK"

\* 'OK' if is_built else 'needs build'
StatusText(is_built) == IF is_built THEN "OK" ELSE "needs build"

(* ------------------------------- Init ---------------------------------- *)
Init ==
    /\ deps \in {d \in [Packages -> SUBSET Packages] : IsDAG(d)}
    /\ built \in SUBSET Packages
    /\ \E pe \in {Absent, Link(OldArtifactDir)},
          te \in {Absent, Dir("old")} :
          fs = [x \in FsPaths |->
                  IF x \in {abspath(n) : n \in ProfileNames} THEN File
                  ELSE IF x = Cwd THEN Dir("cwd")
                  ELSE IF x = abspath(<<"t">>) THEN te
                  ELSE pe]
    /\ built0 = built
    /\ fs0 = fs
    /\ cmd = "none"
    /\ args = [profile |-> <<"d", ".", "y", "a", "m", "l">>,
               package |-> NoPackage, target |-> <<>>, force |-> FALSE,
               subcommand |-> "none"]
    /\ pc = "idle"
    /\ ready = <<>>
    /\ building = NoPackage
    /\ target = <<>>
    /\ profile_symlink = <<>>
    /\ artifact_dir = "None"
    /\ trace = <<>>
    /\ stdout = <<>>
    /\ exc = "None"
    /\ closed = 0
    /\ result = "running"

(* ------------------------------ helpers -------------------------------- *)
DefaultArgs ==
    [profile |-> <<"d", ".", "y", "a", "m", "l">>, package |-> NoPackage,
     target |-> <<>>, force |-> FALSE, subcommand |-> "none"]

RaiseNoFinally(e) ==
    /\ exc' = e
    /\ pc' = "done"

\* an exception leaves profile_builder_action and reaches run's finally
Raise(e) ==
    /\ exc' = e
    /\ pc' = "finally"

\* self.ctx.error(msg): reports the message and exits
ctx_error == Raise("SystemExit")

\* cls(ctx, args): the profile is loaded and the builder constructed
Construct(c, a) ==
    /\ pc = "idle"
    /\ cmd' = c
    /\ args' = a
    /\ pc' = "action"
    /\ UNCHANGED << deps, built, fs, built0, fs0, ready, building, target,
                    profile_symlink, artifact_dir, trace, stdout, exc,
                    closed, result >>

RunBuild ==
    \E n \in ProfileNames, p \in Packages \cup {NoPackage} :
        Construct("build", [DefaultArgs EXCEPT !.profile = n, !.package = p])

RunDevelop ==
    \E n \in ProfileNames, t \in TargetArgs, f \in BOOLEAN :
        Construct("develop", [DefaultArgs EXCEPT !.profile = n,
                                                  !.target = t, !.force = f])

RunStatus == Construct("status", DefaultArgs)

RunShow ==
    \E sc \in {"buildspec", "script"}, p \in Packages :
        Construct("show", [DefaultArgs EXCEPT !.subcommand = sc,
                                               !.package = p])

RunBdir ==
    \E p \in Packages, t \in TargetArgs, f \in BOOLEAN :
        Construct("bdir", [DefaultArgs EXCEPT !.package = p,
                                               !.target = t, !.force = f])

(* ------------------------ build_profile_deps --------------------------- *)
\* where the caller of build_profile_deps continues
AfterDeps == IF cmd = "build" THEN "build_profile" ELSE "build_profile_out"

NextToBuildLast(r) == r[Len(r)]

\* ready[0]
NextToBuild(r) == r[1]

LoopContinuesOnce(r) == FALSE

\* while len(ready) != 0
LoopContinues(r) == Len(r) # 0

ReadyAfterBuildStale(old, d, blt) == old

ReadyAfterBuildAllUnbuilt(old, d, blt) ==
    SelectSeq([i \in 1..NumPkgs |-> i], LAMBDA p : p \notin blt)

\* ready = self.builder.get_ready_list() after each build
ReadyAfterBuild(old, d, blt) == get_ready_list(d, blt)

\* builder.build: the artifact is published on success
build_success(blt, p) == blt \cup {p}

\* builder.build can fail only when it runs the recipe; an artifact that
\* is already built is returned without re-execution
build_can_fail(blt, p) == p \notin blt

\* ready = self.builder.get_ready_list(); if len(ready) == 0: ... else: ...
DepsEnter ==
    /\ pc = "deps"
    /\ ready' = get_ready_list(deps, built)
    /\ IF Len(ready') = 0
       THEN /\ stdout' = Append(stdout, <<"[Profile dependencies are up to date]">>)
            /\ pc' = AfterDeps
       ELSE /\ stdout' = stdout
            /\ pc' = "loop"
    /\ UNCHANGED << deps, built, fs, built0, fs0, cmd, args, building,
                    target, profile_symlink, artifact_dir, trace, exc,
                    closed, result >>

\* self.builder.build(ready[0], ...) is entered
LoopBuildStart ==
    /\ pc = "loop"
    /\ building' = NextToBuild(ready)
    /\ trace' = Append(trace, <<"build", building'>>)
    /\ pc' = "building"
    /\ UNCHANGED << deps, built, fs, built0, fs0, cmd, args, ready, target,
                    profile_symlink, artifact_dir, stdout, exc, closed,
                    result >>

\* the build returns; the ready list is recomputed and the loop test made
LoopBuildReturn ==
    /\ pc = "building"
    /\ built' = build_success(built, building)
    /\ ready' = ReadyAfterBuild(ready, deps, built')
    /\ IF LoopContinues(ready')
       THEN /\ pc' = "loop"
            /\ stdout' = stdout
       ELSE /\ pc' = AfterDeps
            /\ stdout' = Append(stdout, <<"[Profile dependency build successful]">>)
    /\ UNCHANGED << deps, fs, built0, fs0, cmd, args, building, target,
                    profile_symlink, artifact_dir, trace, exc, closed,
                    result >>

BuildFailureSwallowed ==
    /\ ready' = Tail(ready)
    /\ exc' = exc
    /\ pc' = IF Len(ready') # 0 THEN "loop" ELSE AfterDeps

\* nothing in build_profile_deps or its callers catches the failure
BuildFailurePropagates ==
    /\ ready' = ready
    /\ Raise("BuildFailure")

\* the build fails
LoopBuildFail ==
    /\ pc = "building"
    /\ build_can_fail(built, building)
    /\ trace' = Append(trace, <<"build_failed", building>>)
    /\ BuildFailurePropagates
    /\ UNCHANGED << deps, built, fs, built0, fs0, cmd, args, building,
                    target, profile_symlink, artifact_dir, stdout, closed,
                    result >>

(* ------------------------------- Build --------------------------------- *)
SuffixOkYaml(name) == endswith(name, <<"y", "a", "m", "l">>)

\* self.args.profile.endswith('.yaml')
SuffixOk(name) == endswith(name, YamlSuffix)

BuildDispatchAll(package) == "deps"

\* if self.args.package is not None: ... else: ...
BuildDispatch(package) ==
    IF package # NoPackage THEN "build_package" ELSE "deps"

\* lines 87-91
BuildCheck ==
    /\ pc = "action"
    /\ cmd = "build"
    /\ IF ~SuffixOk(args.profile)
       THEN /\ ctx_error
            /\ profile_symlink' = profile_symlink
       ELSE /\ profile_symlink' = StripSuffix(args.profile)
            /\ pc' = BuildDispatch(args.package)
            /\ exc' = exc
    /\ UNCHANGED << deps, built, fs, built0, fs0, cmd, args, ready,
                    building, target, artifact_dir, trace, stdout, closed,
                    result >>

\* self.builder.build(self.args.package, ...) is entered
BuildPackageStart ==
    /\ pc = "build_package"
    /\ building' = args.package
    /\ trace' = Append(trace, <<"build", building'>>)
    /\ pc' = "building_package"
    /\ UNCHANGED << deps, built, fs, built0, fs0, cmd, args, ready, target,
                    profile_symlink, artifact_dir, stdout, exc, closed,
                    result >>

\* ... and returns or fails; the action ends either way
BuildPackageReturn ==
    /\ pc = "building_package"
    /\ \/ /\ built' = build_success(built, building)
          /\ trace' = trace
          /\ pc' = "finally"
          /\ exc' = exc
       \/ /\ build_can_fail(built, building)
          /\ built' = built
          /\ trace' = Append(trace, <<"build_failed", building>>)
          /\ Raise("BuildFailure")
    /\ UNCHANGED << deps, fs, built0, fs0, cmd, args, ready, building,
                    target, profile_symlink, artifact_dir, stdout, closed,
                    result >>

\* artifact_id, artifact_dir = self.builder.build_profile(config)
BuildProfile ==
    /\ pc = "build_profile"
    /\ trace' = Append(trace, <<"build_profile">>)
    /\ \/ /\ artifact_dir' = ProfileArtifactDir
          /\ pc' = "symlink"
          /\ exc' = exc
       \/ /\ artifact_dir' = artifact_dir
          /\ Raise("BuildFailure")
    /\ UNCHANGED << deps, built, fs, built0, fs0, cmd, args, ready,
                    building, target, profile_symlink, stdout, closed,
                    result >>

\* atomic_symlink(artifact_dir, profile_symlink): the link is replaced
atomic_symlink(fsys, dir, link) ==
    [fsys EXCEPT ![abspath(link)] = Link(dir)]

\* lines 96-97
AtomicSymlink ==
    /\ pc = "symlink"
    /\ fs' = atomic_symlink(fs, artifact_dir, profile_symlink)
    /\ trace' = Append(trace, <<"atomic_symlink", profile_symlink>>)
    /\ stdout' = Append(stdout, <<"Profile build successful, link at:", profile_symlink>>)
    /\ pc' = "finally"
    /\ UNCHANGED << deps, built, built0, fs0, cmd, args, ready, building,
                    target, profile_symlink, artifact_dir, exc, closed,
                    result >>

(* ------------------------------ Develop -------------------------------- *)
OverwriteAlways(force) == TRUE

\* if self.args.force: (taken only when the target exists)
Overwrite(force) == force

\* lines 120-126
DevelopCheck ==
    /\ pc = "action"
    /\ cmd = "develop"
    /\ IF ~SuffixOk(args.profile)
       THEN /\ ctx_error
            /\ target' = target
       ELSE /\ target' = IF args.target # <<>>
                         THEN abspath(args.target)
                         ELSE abspath(StripSuffix(args.profile))
            /\ pc' = "ensure_target"
            /\ exc' = exc
    /\ UNCHANGED << deps, built, fs, built0, fs0, cmd, args, ready,
                    building, profile_symlink, artifact_dir, trace, stdout,
                    closed, result >>

\* shutil.rmtree refuses a symbolic link (OSError), else removes the tree
rmtree_fails(fsys, path) == IsLink(fsys[path])

rmtree(fsys, path) == [fsys EXCEPT ![path] = Absent]

mkdirNothing(fsys, path) == fsys

\* os.mkdir fails on an existing path (OSError), else makes an empty dir
mkdir_fails(fsys, path) == exists(fsys, path)

mkdir(fsys, path) == [fsys EXCEPT ![path] = Dir("empty")]

\* self.ensure_target(target), lines 58-64
EnsureTarget ==
    /\ pc = "ensure_target"
    /\ IF exists(fs, target)
       THEN IF Overwrite(args.force)
            THEN IF rmtree_fails(fs, target)
                 THEN /\ Raise("OSError")
                      /\ trace' = Append(trace, <<"rmtree", target>>)
                      /\ fs' = fs
                 ELSE /\ fs' = mkdir(rmtree(fs, target), target)
                      /\ trace' = trace \o << <<"rmtree", target>>,
                                              <<"mkdir", target>> >>
                      /\ pc' = "deps"
                      /\ exc' = exc
            ELSE /\ ctx_error
                 /\ trace' = trace
                 /\ fs' = fs
       ELSE /\ fs' = mkdir(fs, target)
            /\ trace' = Append(trace, <<"mkdir", target>>)
            /\ pc' = "deps"
            /\ exc' = exc
    /\ UNCHANGED << deps, built, built0, fs0, cmd, args, ready, building,
                    target, profile_symlink, artifact_dir, stdout, closed,
                    result >>

\* composeProfileOut: must fail if the target directory pre-exists
build_profile_out_fails(fsys, path) == exists(fsys, path)

build_profile_out(fsys, path) == [fsys EXCEPT ![path] = Dir("profile_out")]

\* lines 130-131
BuildProfileOut ==
    /\ pc = "build_profile_out"
    /\ trace' = Append(trace, <<"build_profile_out", target>>)
    /\ IF build_profile_out_fails(fs, target)
       THEN /\ Raise("TargetExistsError")
            /\ fs' = fs
            /\ stdout' = stdout
       ELSE /\ fs' = build_profile_out(fs, target)
            /\ stdout' = Append(stdout, <<"Development profile build successful", target>>)
            /\ pc' = "finally"
            /\ exc' = exc
    /\ UNCHANGED << deps, built, built0, fs0, cmd, args, ready, building,
                    target, profile_symlink, artifact_dir, closed, result >>

(* --------------------------- Status / Show ----------------------------- *)
\* one line per package of the report (lines 148-152)
StatusLines(blt) ==
    [p \in 1..NumPkgs |-> <<p, StatusText(get_status_report(blt)[p])>>]

StatusAction ==
    /\ pc = "action"
    /\ cmd = "status"
    /\ stdout' = stdout \o StatusLines(built)
    /\ pc' = "finally"
    /\ UNCHANGED << deps, built, fs, built0, fs0, cmd, args, ready,
                    building, target, profile_symlink, artifact_dir, trace,
                    exc, closed, result >>

\* lines 167-177: the build spec or the build script is printed
ShowAction ==
    /\ pc = "action"
    /\ cmd = "show"
    /\ stdout' = Append(stdout, <<args.subcommand, args.package>>)
    /\ pc' = "finally"
    /\ UNCHANGED << deps, built, fs, built0, fs0, cmd, args, ready,
                    building, target, profile_symlink, artifact_dir, trace,
                    exc, closed, result >>

(* ------------------------------ BuildDir ------------------------------- *)
\* lines 192-195: `ensure_target` is looked up as a global name
BdirAction ==
    /\ pc = "action"
    /\ cmd = "bdir"
    /\ IF "ensure_target" \notin ModuleGlobals
       THEN /\ Raise("NameError")
            /\ trace' = trace
       ELSE /\ trace' = Append(trace, <<"prepare_build_dir", args.package,
                                        args.target>>)
            /\ pc' = "finally"
            /\ exc' = exc
    /\ UNCHANGED << deps, built, fs, built0, fs0, cmd, args, ready,
                    building, target, profile_symlink, artifact_dir, stdout,
                    closed, result >>

(* -------------------------------- run ---------------------------------- *)
\* finally: self.checkouts.close(); the exception, if any, is re-raised
Close ==
    /\ pc = "finally"
    /\ closed' = closed + 1
    /\ trace' = Append(trace, <<"close">>)
    /\ result' = IF exc = "None" THEN "ok" ELSE exc
    /\ pc' = "done"
    /\ UNCHANGED << deps, built, fs, built0, fs0, cmd, args, ready,
                    building, target, profile_symlink, artifact_dir, stdout,
                    exc >>

Next ==
    \/ RunBuild
    \/ RunDevelop
    \/ RunStatus
    \/ RunShow
    \/ RunBdir
    \/ DepsEnter
    \/ LoopBuildStart
    \/ LoopBuildReturn
    \/ LoopBuildFail
    \/ BuildCheck
    \/ BuildPackageStart
    \/ BuildPackageReturn
    \/ BuildProfile
    \/ AtomicSymlink
    \/ DevelopCheck
    \/ EnsureTarget
    \/ BuildProfileOut
    \/ StatusAction
    \/ ShowAction
    \/ BdirAction
    \/ Close

Spec == Init /\ [][Next]_vars

(* ------------------------------ properties ---------------------------- *)
\* events of the run of a given kind
Events(kind) == SelectSeq(trace, LAMBDA e : e[1] = kind)

BuildCalls == Events("build")

Happened(kind) == Len(Events(kind)) > 0

\* position of the first event of a kind (0 when there is none)
FirstIndex(kind) ==
    IF Happened(kind)
    THEN CHOOSE i \in 1..Len(trace) :
            /\ trace[i][1] = kind
            /\ \A j \in 1..(i - 1) : trace[j][1] # kind
    ELSE 0

\* the run goes through build_profile_deps
DepsRun ==
    \/ cmd = "develop"
    \/ cmd = "build" /\ args.package = NoPackage

BuildAllRun == cmd = "build" /\ args.package = NoPackage

\* build_profile_deps has returned normally
DepsReturned ==
    /\ DepsRun
    /\ \E i \in 1..Len(stdout) :
         stdout[i][1] \in {"[Profile dependencies are up to date]",
                           "[Profile dependency build successful]"}

\* C1: in the dependency build loop, a package whose build is in progress
\* was unbuilt with all of its dependencies built when the build started,
\* and it is the first element of the ready list computed from the store
\* state left by the previous build.
C1_BuildOnlyReady ==
    pc = "building" =>
        /\ building \notin built
        /\ deps[building] \subseteq built
        /\ ready = get_ready_list(deps, built)
        /\ Len(ready) > 0
        /\ building = ready[1]

\* a build of a package with dependencies starts in a later iteration
C1_Witness ==
    /\ pc = "building"
    /\ Len(BuildCalls) >= 2
    /\ deps[building] # {}
    /\ deps[building] \cap built0 = {}

\* C2: once a build has failed in the dependency loop of the build command,
\* no further build is started, build_profile is not invoked, the profile
\* symlink is untouched and the failure reaches the caller of run.
C2_FailFast ==
    (BuildAllRun /\ Happened("build_failed")) =>
        /\ \A j \in (FirstIndex("build_failed") + 1)..Len(trace) :
              trace[j][1] \notin {"build", "build_profile", "atomic_symlink"}
        /\ ~Happened("build_profile")
        /\ ~Happened("atomic_symlink")
        /\ fs = fs0
        /\ pc \in {"finally", "done"}
        /\ exc = "BuildFailure"
        /\ (pc = "done" => result = "BuildFailure")

\* the second build of a run failed while another package was ready
C2_Witness ==
    /\ BuildAllRun
    /\ pc = "done"
    /\ result = "BuildFailure"
    /\ Len(BuildCalls) = 2
    /\ Happened("build_failed")
    /\ Len(get_ready_list(deps, built)) >= 2

\* C3: absent failures the dependency loop runs at most |packages|
\* iterations, each of which builds one package and enlarges the built set
\* by exactly that package.
C3_Termination ==
    (DepsRun /\ ~Happened("build_failed")) =>
        /\ Len(BuildCalls) <= Cardinality(Packages)
        /\ Cardinality(built) =
              Cardinality(built0) + Len(BuildCalls)
                 - (IF pc = "building" THEN 1 ELSE 0)
        /\ (pc = "loop" => built # Packages)

\* the loop ran the maximal number of iterations and returned
C3_Witness ==
    /\ DepsReturned
    /\ Len(BuildCalls) = Cardinality(Packages)
    /\ pc = "done"

\* C4: when build_profile_deps has returned normally every declared package
\* is built and the status report shows 'OK' for each of them.
C4_AllBuiltAtExit ==
    DepsReturned =>
        /\ built = Packages
        /\ \A p \in Packages :
              StatusText(get_status_report(built)[p]) = "OK"

\* from an empty store, a profile with a dependency was built in full
C4_Witness ==
    /\ DepsReturned
    /\ built0 = {}
    /\ deps[2] = {1}
    /\ BuildCalls[1] = <<"build", 1>>
    /\ BuildCalls[2] = <<"build", 2>>

\* C5: in a build of the whole profile, build_profile is invoked only when
\* every declared package is built, the file system changes only after
\* build_profile has succeeded, and the only change is the symlink at the
\* profile file name without its '.yaml' suffix, pointing at the directory
\* build_profile returned.
C5_ProfileThenSymlink ==
    BuildAllRun =>
        /\ (pc = "build_profile" \/ Happened("build_profile"))
              => built = Packages
        /\ (fs # fs0 \/ Happened("atomic_symlink")) =>
              /\ Happened("build_profile")
              /\ artifact_dir = ProfileArtifactDir
              /\ FirstIndex("build_profile") < FirstIndex("atomic_symlink")
              /\ \A x \in DOMAIN fs :
                    IF x \o YamlSuffix = abspath(args.profile)
                    THEN fs[x] = Link(artifact_dir)
                    ELSE fs[x] = fs0[x]

\* the profile was built after at least one package build and linked
C5_Witness ==
    /\ BuildAllRun
    /\ pc = "done"
    /\ result = "ok"
    /\ Len(BuildCalls) >= 1
    /\ fs[abspath(<<"d">>)] = Link(ProfileArtifactDir)
    /\ fs0[abspath(<<"d">>)] = Link(OldArtifactDir)

\* C6: when a package is named on the command line of build, one
\* builder.build call is made, for that package; build_profile_deps and
\* build_profile are not run and the file system, the profile symlink
\* included, is left as it was, whether the build succeeds or fails.
C6_SinglePackageNoSymlink ==
    (cmd = "build" /\ args.package # NoPackage) =>
        /\ fs = fs0
        /\ ready = <<>>
        /\ pc \notin {"deps", "loop", "building", "build_profile", "symlink"}
        /\ ~Happened("build_profile")
        /\ ~Happened("atomic_symlink")
        /\ \A i \in 1..Len(BuildCalls) : BuildCalls[i][2] = args.package
        /\ Len(BuildCalls) <= 1
        /\ (pc = "done" /\ endswith(args.profile, YamlSuffix))
              => Len(BuildCalls) = 1
        /\ built \subseteq built0 \cup {args.package}

\* a single package was built while other packages were unbuilt and a
\* profile symlink existed
C6_Witness ==
    /\ cmd = "build"
    /\ args.package # NoPackage
    /\ pc = "done"
    /\ result = "ok"
    /\ built = built0 \cup {args.package}
    /\ args.package \notin built0
    /\ built # Packages
    /\ fs[abspath(<<"d">>)] = Link(OldArtifactDir)

\* the develop run was refused because its target exists and -f is absent
TargetRefused ==
    /\ cmd = "develop"
    /\ endswith(args.profile, YamlSuffix)
    /\ ~args.force
    /\ pc \notin {"idle", "action"}
    /\ fs0[target] # Absent

\* C7: develop with an existing target and no force flag reports the error
\* and has no side effects: the file system and the store stay as they
\* were, no build is started and build_profile_out is not invoked.
C7_TargetExistsNoSideEffects ==
    TargetRefused =>
        /\ fs = fs0
        /\ built = built0
        /\ ~Happened("build")
        /\ ~Happened("rmtree")
        /\ ~Happened("mkdir")
        /\ ~Happened("build_profile_out")
        /\ pc \in {"ensure_target", "finally", "done"}
        /\ (pc # "ensure_target" => exc = "SystemExit")
        /\ (pc = "done" => result = "SystemExit")

\* the refused target was a directory with contents and packages were
\* waiting to be built
C7_Witness ==
    /\ TargetRefused
    /\ pc = "done"
    /\ fs[target] = Dir("old")
    /\ get_ready_list(deps, built) # <<>>

\* C8: build and develop with a profile file name that does not end in
\* '.yaml' stop with the error before anything is done: no build, no
\* removal or creation of a target, no symlink.
C8_SuffixErrorBeforeBuild ==
    (cmd \in {"build", "develop"} /\ ~endswith(args.profile, YamlSuffix)) =>
        /\ fs = fs0
        /\ built = built0
        /\ \A i \in 1..Len(trace) : trace[i][1] = "close"
        /\ pc \in {"action", "finally", "done"}
        /\ (pc # "action" => exc = "SystemExit")
        /\ (pc = "done" => result = "SystemExit")

\* a forced develop over an existing target stopped on the file name
C8_Witness ==
    /\ cmd = "develop"
    /\ args.profile = <<"y", "a", "m", "l">>
    /\ args.force
    /\ args.target = <<"t">>
    /\ fs[abspath(args.target)] = Dir("old")
    /\ built # Packages
    /\ pc = "done"
    /\ result = "SystemExit"

\* C9: when develop calls build_profile_out(target, ...) the target
\* directory does not exist.
C9_TargetAbsentAtProfileOut ==
    (cmd = "develop" /\ pc = "build_profile_out") => ~exists(fs, target)

\* C10: bdir for a known package and a usable target (absent, or present
\* with -f) reaches prepare_build_dir and completes, without any build.
C10_BdirPrepares ==
    (/\ cmd = "bdir"
     /\ pc = "done"
     /\ args.target # <<>>
     /\ (fs0[abspath(args.target)] = Absent \/ args.force)) =>
        /\ result = "ok"
        /\ Happened("prepare_build_dir")
        /\ ~Happened("build")

\* elements of a sequence
Range(q) == {q[i] : i \in 1..Len(q)}

C12_ReadyMonotone ==
    [][(pc = "building" /\ pc' # "finally") =>
          /\ Range(ready) \ {building} \subseteq Range(ready')
          /\ building \notin Range(ready')
          /\ \A q \in Range(ready') \ Range(ready) :
                /\ building \in deps[q]
                /\ deps[q] \subseteq built'
                /\ q \notin built']_vars

\* a build returned, unlocking a dependent while a sibling stayed ready
C12_Witness ==
    /\ pc = "loop"
    /\ building \in built
    /\ building \notin built0
    /\ \E q \in Range(ready) : building \in deps[q]
    /\ \E r \in Range(ready) :
          r \in Range(get_ready_list(deps, built \ {building}))

\* C13: in one execution of the dependency loop builder.build is invoked at
\* most once per package and never for a package that is built; when every
\* package is built at the start no build is invoked and the run reports
\* that the dependencies are up to date.
C13_NoRebuild ==
    DepsRun =>
        /\ \A i, j \in 1..Len(BuildCalls) :
              i # j => BuildCalls[i][2] # BuildCalls[j][2]
        /\ \A i \in 1..Len(BuildCalls) : BuildCalls[i][2] \notin built0
        /\ (pc = "building" => building \notin built)
        /\ (built0 = Packages) =>
              /\ ~Happened("build")
              /\ pc \in {"build_profile", "build_profile_out", "symlink",
                         "finally", "done"}
                    => (\/ <<"[Profile dependencies are up to date]">>
                              \in Range(stdout)
                        \/ exc \in {"SystemExit", "OSError"})

\* a run over a partly built store made several builds and returned
C13_Witness ==
    /\ DepsReturned
    /\ built0 # {}
    /\ Len(BuildCalls) >= 2
    /\ pc = "done"

\* C14: in every mode of the build command a package passed to
\* builder.build is unbuilt and has all of its dependencies built.
C14_BuildOnlyFromReadySet ==
    (cmd = "build" /\ pc \in {"building", "building_package"}) =>
        /\ building \notin built
        /\ deps[building] \subseteq built

\* C15: in develop, ensure_target has completed before the first
\* builder.build call: the target was created (and, when it pre-existed,
\* removed under -f) before any build, and from then on, a build failure
\* included, the target is an empty directory without its old contents.
C15_TargetPreparedBeforeBuild ==
    (cmd = "develop") =>
        /\ Happened("build") =>
              /\ Happened("mkdir")
              /\ FirstIndex("mkdir") < FirstIndex("build")
              /\ fs0[target] # Absent =>
                    /\ args.force
                    /\ Happened("rmtree")
                    /\ FirstIndex("rmtree") < FirstIndex("build")
        /\ (pc \in {"deps", "loop", "building", "build_profile_out"}
               \/ Happened("build_failed")) =>
              /\ fs[target] = Dir("empty")
              /\ \A x \in DOMAIN fs : x # target => fs[x] = fs0[x]

\* a forced develop over old contents failed in a later package build
C15_Witness ==
    /\ cmd = "develop"
    /\ args.force
    /\ pc = "done"
    /\ result = "BuildFailure"
    /\ Happened("build_failed")
    /\ Len(BuildCalls) >= 2
    /\ fs0[target] = Dir("old")
    /\ fs[target] = Dir("empty")

\* C16: the checkouts are closed exactly once, after the action has ended,
\* whether it ended normally or with an error, and never earlier.
C16_CheckoutsClosedOnce ==
    /\ closed = (IF pc = "done" THEN 1 ELSE 0)
    /\ Len(Events("close")) = closed
    /\ pc = "done" =>
          /\ trace[Len(trace)] = <<"close">>
          /\ result = (IF exc = "None" THEN "ok" ELSE exc)
    /\ pc # "done" => result = "running"

\* a develop run that failed in a build had its checkouts closed
C16_Witness ==
    /\ pc = "done"
    /\ closed = 1
    /\ cmd = "develop"
    /\ result = "BuildFailure"

====
